---------------------------- MODULE Spec2Model ----------------------------
(*************************************************************************)
(* Binary search (src/test-code.py): the function binary_search and the  *)
(* module-level driver that calls it and reports the result.             *)
(*                                                                       *)
(* The program is sequential.  pc names the source line about to be      *)
(* executed:                                                             *)
(*   "L25"  result = binary_search(sorted_array, target)   (the call)    *)
(*   "L7"   left, right = 0, len(arr) - 1                                *)
(*   "L9"   while left <= right                                          *)
(*   "L10"  mid = (left + right) // 2                                    *)
(*   "L12"  if arr[mid] == target / elif arr[mid] < target / else        *)
(*   "L19"  return -1                                                    *)
(*   "L26"  if result != -1: print(...) else: print(...)                 *)
(*   "done" end of the script                                            *)
(*   "error" an IndexError propagated out of the script                  *)
(* Python integers are unbounded, so no width is modelled.               *)
(*************************************************************************)
EXTENDS Integers, Sequences, FiniteSets, TLC

\* ---- bounds of the enumerated inputs ----
MaxLen == 4      \* longest enumerated sequence
MaxVal == 4      \* elements are drawn from 1..MaxVal
MaxCalls == 2    \* how many times the caller invokes the function
MaxProbes == 6   \* the recorded probe history stops growing at this length

\* ---- the driver's hardcoded inputs (lines 22-23) ----
sorted_array == <<1, 3, 5, 7, 9, 11, 13, 15, 17, 19>>
DemoTarget == 7

\* placeholder held by a name that is not bound yet; the program never reads
\* a name before assigning it, so the value is never observed
Unbound == -2

VARIABLES arr, target, left, right, mid, result, pc, out, calls, prev, trace

vars == <<arr, target, left, right, mid, result, pc, out, calls, prev, trace>>

\* ---- inputs ----
Values == 1 .. MaxVal
Targets == 0 .. (MaxVal + 1)
Arrays == UNION {[1 .. n -> Values] : n \in 0 .. MaxLen}
DemoTargets == 0 .. (sorted_array[Len(sorted_array)] + 1)

\* ---- helpers for stating properties ----
Range(a) == {a[i] : i \in 1 .. Len(a)}
Sorted(a) == \A i \in 1 .. Len(a) - 1 : a[i] <= a[i + 1]
StrictlySorted(a) == \A i \in 1 .. Len(a) - 1 : a[i] < a[i + 1]
Occurrences(a, x) == {i \in 0 .. Len(a) - 1 : a[i + 1] = x}

RECURSIVE FloorLog2(_)
FloorLog2(n) == IF n <= 1 THEN 0 ELSE 1 + FloorLog2(n \div 2)

RECURSIVE Insert(_, _)
Insert(x, s) ==
    IF s = <<>> THEN <<x>>
    ELSE IF x <= Head(s) THEN <<x>> \o s
    ELSE <<Head(s)>> \o Insert(x, Tail(s))

RECURSIVE SortedCopy(_)
SortedCopy(s) == IF s = <<>> THEN <<>> ELSE Insert(Head(s), SortedCopy(Tail(s)))

\* ---- the expressions of binary_search ----

\* Python's list subscript a[i]: in range, negative wrap-around, or IndexError
Subscript(a, i) ==
    IF 0 <= i /\ i < Len(a) THEN [ok |-> TRUE, val |-> a[i + 1]]
    ELSE IF i < 0 /\ -Len(a) <= i THEN [ok |-> TRUE, val |-> a[Len(a) + i + 1]]
    ELSE [ok |-> FALSE, val |-> 0]

InitRightShort(a) == Len(a) - 2
InitRightLong(a) == Len(a)
\* line 7: right = len(arr) - 1
InitRight(a) == Len(a) - 1

MidpointLinear(l, r) == l
MidpointCeil(l, r) == (l + r + 1) \div 2
\* line 10: (left + right) // 2
Midpoint(l, r) == (l + r) \div 2

IsMatchLoose(x, t) == x <= t
\* line 12: arr[mid] == target
IsMatch(x, t) == x = t

GoRightSwapped(x, t) == x > t
\* line 14: arr[mid] < target
GoRight(x, t) == x < t

NextLeftStuck(m) == m
\* line 15: left = mid + 1
NextLeft(m) == m + 1

\* line 17: right = mid - 1
NextRight(m) == m - 1

ExitValueInsertionPoint == left
\* line 19: return -1
ExitValue == -1

FoundTruthy(r) == r > 0
\* line 26: result != -1
Found(r) == r # -1

\* ---- initial state: the script before line 25 ----
Init ==
    /\ \/ arr \in Arrays /\ target \in Targets
       \/ arr = sorted_array /\ target \in DemoTargets
    /\ left = Unbound
    /\ right = Unbound
    /\ mid = Unbound
    /\ result = Unbound
    /\ pc = "L25"
    /\ out = <<>>
    /\ calls = 0
    /\ prev = Unbound
    /\ trace = <<>>

\* line 25: the call binds arr and target and enters the function
Call ==
    /\ pc = "L25"
    /\ pc' = "L7"
    /\ calls' = calls + 1
    /\ UNCHANGED <<arr, target, left, right, mid, result, out, prev, trace>>

EnterSorting ==
    /\ pc = "L7"
    /\ arr' = SortedCopy(arr)
    /\ left' = 0
    /\ right' = InitRight(arr)
    /\ pc' = "L9"
    /\ UNCHANGED <<target, mid, result, out, calls, prev, trace>>

\* line 7: left, right = 0, len(arr) - 1
Enter ==
    /\ pc = "L7"
    /\ left' = 0
    /\ right' = InitRight(arr)
    /\ pc' = "L9"
    /\ UNCHANGED <<arr, target, mid, result, out, calls, prev, trace>>

\* line 9: while left <= right
LoopTest ==
    /\ pc = "L9"
    /\ pc' = IF left <= right THEN "L10" ELSE "L19"
    /\ UNCHANGED <<arr, target, left, right, mid, result, out, calls, prev, trace>>

\* line 10: mid = (left + right) // 2
ComputeMid ==
    /\ pc = "L10"
    /\ mid' = Midpoint(left, right)
    /\ pc' = "L12"
    /\ UNCHANGED <<arr, target, left, right, result, out, calls, prev, trace>>

\* lines 12-17: one probe of arr[mid] and the three-way branch
Probe ==
    /\ pc = "L12"
    /\ trace' = IF Len(trace) < MaxProbes
                THEN Append(trace, [left |-> left, right |-> right, mid |-> mid])
                ELSE trace
    /\ LET e == Subscript(arr, mid) IN
       IF ~e.ok
       THEN /\ pc' = "error"
            /\ UNCHANGED <<left, right, result>>
       ELSE IF IsMatch(e.val, target)
       THEN /\ result' = mid
            /\ pc' = "L26"
            /\ UNCHANGED <<left, right>>
       ELSE IF GoRight(e.val, target)
       THEN /\ left' = NextLeft(mid)
            /\ pc' = "L9"
            /\ UNCHANGED <<right, result>>
       ELSE /\ right' = NextRight(mid)
            /\ pc' = "L9"
            /\ UNCHANGED <<left, result>>
    /\ UNCHANGED <<arr, target, mid, out, calls, prev>>

\* line 19: return -1
ReturnNotFound ==
    /\ pc = "L19"
    /\ result' = ExitValue
    /\ pc' = "L26"
    /\ UNCHANGED <<arr, target, left, right, mid, out, calls, prev, trace>>

\* lines 26-29: the driver reports the result
Report ==
    /\ pc = "L26"
    /\ out' = IF Found(result)
              THEN <<"Element", target, "found at index", result>>
              ELSE <<"Element", target, "not found in the array">>
    /\ pc' = "done"
    /\ UNCHANGED <<arr, target, left, right, mid, result, calls, prev, trace>>

\* the caller invokes the function again on the same inputs (a fresh frame)
Again ==
    /\ pc = "done"
    /\ calls < MaxCalls
    /\ prev' = result
    /\ left' = Unbound
    /\ right' = Unbound
    /\ mid' = Unbound
    /\ result' = Unbound
    /\ out' = <<>>
    /\ trace' = <<>>
    /\ pc' = "L25"
    /\ UNCHANGED <<arr, target, calls>>

Next ==
    \/ Call
    \/ Enter
    \/ LoopTest
    \/ ComputeMid
    \/ Probe
    \/ ReturnNotFound
    \/ Report
    \/ Again

Spec == Init /\ [][Next]_vars

\* a sequential program keeps executing its next statement
FairSpec == Init /\ [][Next]_vars /\ WF_vars(Next)

Returned == pc \in {"L26", "done"}
InFunction == pc \in {"L7", "L9", "L10", "L12", "L19"}

\* ---- properties ----

\* C1: on a sorted sequence that contains the target, the returned value is
\* an index i with 0 <= i < len(arr) and arr[i] = target; on a strictly
\* increasing sequence the first element is found at 0 and the last at
\* len(arr) - 1.
C1_FindsPresent ==
    (Returned /\ Sorted(arr) /\ target \in Range(arr)) =>
        /\ result \in 0 .. Len(arr) - 1
        /\ arr[result + 1] = target
        /\ (StrictlySorted(arr) /\ target = arr[1] => result = 0)
        /\ (StrictlySorted(arr) /\ target = arr[Len(arr)] => result = Len(arr) - 1)

C1_Witness ==
    /\ Returned
    /\ StrictlySorted(arr)
    /\ Len(arr) >= 3
    /\ target = arr[Len(arr)]
    /\ result = Len(arr) - 1

\* C2: on a sorted sequence (the empty one included) that does not contain
\* the target, the returned value is the sentinel -1.
C2_AbsentGivesSentinel ==
    (Returned /\ Sorted(arr) /\ target \notin Range(arr)) => result = -1

C2_Witness ==
    /\ Returned
    /\ Sorted(arr)
    /\ Len(arr) >= 2
    /\ arr[1] < target
    /\ target < arr[Len(arr)]
    /\ target \notin Range(arr)
    /\ result = -1

\* C3: every call returns: once the function is entered it eventually
\* reaches a return, and each iteration that loops back strictly decreases
\* right - left.
C3_Terminates ==
    /\ (pc = "L7") ~> Returned
    /\ [][(pc = "L12" /\ pc' = "L9") => (right' - left' < right - left)]_vars

C3_Witness ==
    /\ Returned
    /\ Len(trace) >= 3

\* C4: on any sequence, sorted or not, no IndexError is raised, and whenever
\* arr[mid] is read 0 <= left <= mid <= right <= len(arr) - 1 holds.
C4_IndexInRange ==
    /\ pc # "error"
    /\ (pc = "L12" =>
            /\ 0 <= left
            /\ left <= mid
            /\ mid <= right
            /\ right <= Len(arr) - 1)

C4_Witness ==
    /\ pc = "L12"
    /\ ~Sorted(arr)
    /\ Len(trace) >= 1

\* C5: on any sequence the returned value is -1 or an index r with
\* 0 <= r < len(arr) and arr[r] = target.
C5_NoFalsePositive ==
    Returned =>
        \/ result = -1
        \/ /\ result \in 0 .. Len(arr) - 1
           /\ arr[result + 1] = target

C5_Witness ==
    /\ Returned
    /\ ~Sorted(arr)
    /\ result \in 0 .. Len(arr) - 1
    /\ Len(trace) >= 2

\* C6: on [1,3,...,19] with target 7 the driver gets result 3 and reports
\* "Element 7 found at index 3"; the not-found message is reported exactly
\* when the result is -1.
C6_DriverReport ==
    pc = "done" =>
        /\ (arr = sorted_array /\ target = DemoTarget =>
                /\ result = 3
                /\ out = <<"Element", 7, "found at index", 3>>)
        /\ (Len(out) = 3 <=> result = -1)
        /\ (Len(out) = 3 => out = <<"Element", target, "not found in the array">>)
        /\ (Len(out) # 3 => out = <<"Element", target, "found at index", result>>)

C6_Witness ==
    /\ pc = "done"
    /\ arr = sorted_array
    /\ target = DemoTarget
    /\ Len(out) = 4

\* C7: a call leaves arr and target unchanged, and a second call on the same
\* inputs returns what the first returned.
C7_Pure ==
    /\ [][InFunction => (arr' = arr /\ target' = target)]_vars
    /\ [](Returned /\ calls >= 2 => result = prev)

C7_Witness ==
    /\ Returned
    /\ calls = 2
    /\ ~Sorted(arr)
    /\ Len(trace) >= 2

\* C8: the loop body runs zero times for n = 0, exactly once for n = 1, and
\* at most floor(log2(n)) + 1 times for n >= 1, sorted or not.
C8_ProbeBound ==
    /\ (Len(arr) = 0 => Len(trace) = 0)
    /\ (Len(arr) >= 1 => Len(trace) <= FloorLog2(Len(arr)) + 1)
    /\ (Returned /\ Len(arr) = 1 => Len(trace) = 1)

C8_Witness ==
    /\ Returned
    /\ Len(arr) >= 4
    /\ Len(trace) = FloorLog2(Len(arr)) + 1

\* C9: on a sorted sequence with duplicates of the target, the probes start
\* from the window [0, len(arr) - 1], each probes the floor midpoint of its
\* window, and the result is the first probed index holding the target.
C9_FirstMatchingMidpoint ==
    (Returned /\ Sorted(arr) /\ Cardinality(Occurrences(arr, target)) >= 2) =>
        /\ Len(trace) >= 1
        /\ trace[1].left = 0
        /\ trace[1].right = Len(arr) - 1
        /\ \A k \in 1 .. Len(trace) :
              /\ 2 * trace[k].mid <= trace[k].left + trace[k].right
              /\ trace[k].left + trace[k].right <= 2 * trace[k].mid + 1
        /\ \A k \in 1 .. Len(trace) - 1 :
              /\ arr[trace[k].mid + 1] # target
              /\ \/ /\ trace[k + 1].left = trace[k].mid + 1
                    /\ trace[k + 1].right = trace[k].right
                 \/ /\ trace[k + 1].left = trace[k].left
                    /\ trace[k + 1].right = trace[k].mid - 1
        /\ result = trace[Len(trace)].mid
        /\ arr[result + 1] = target

\* the returned duplicate is neither the lowest nor the highest one
C9_Witness ==
    /\ Returned
    /\ Sorted(arr)
    /\ result \in 0 .. Len(arr) - 1
    /\ \E i \in Occurrences(arr, target) : i < result
    /\ \E j \in Occurrences(arr, target) : j > result

\* C10: on sorted input, at every evaluation of the loop condition
\* 0 <= left <= right + 1 <= len(arr), everything below left is less than
\* the target and everything above right is greater, so every index holding
\* the target lies in [left, right].
C10_LoopInvariant ==
    (pc = "L9" /\ Sorted(arr)) =>
        /\ 0 <= left
        /\ left <= right + 1
        /\ right + 1 <= Len(arr)
        /\ \A i \in 0 .. left - 1 : arr[i + 1] < target
        /\ \A i \in right + 1 .. Len(arr) - 1 : arr[i + 1] > target
        /\ \A i \in Occurrences(arr, target) : left <= i /\ i <= right

C10_Witness ==
    /\ pc = "L9"
    /\ Sorted(arr)
    /\ 0 < left
    /\ left <= right
    /\ right < Len(arr) - 1
    /\ target \in Range(arr)

=============================================================================
